---- MODULE Spec2Model ----
(***************************************************************************)
(* A model of the OSS backend of cubeb (src/src/cubeb_oss.c): stream       *)
(* construction (oss_stream_init), the control operations (start, stop,    *)
(* destroy, get_position, set_volume) run by one control thread, and the   *)
(* I/O threads running oss_io_routine, interleaved at the granularity of   *)
(* mutex acquisitions, callbacks and device calls.                         *)
(***************************************************************************)
EXTENDS Integers, Sequences, FiniteSets, TLC

\* ------------------------------------------------------------------ bounds
\* number of I/O threads that can exist unjoined at one time; beyond it
\* pthread_create fails
MaxThreads == 2
\* cap on the frames-written counter (uint64_t in the code, never reset)
MaxPos == 2
\* largest fragment count a device reports for its queue
MaxFrags == 2
\* bytes of partly transferred frames (transfer counts that are no multiple
\* of the frame size) the devices return within one retry loop
MaxExtra == 1

\* ------------------------------------------------------- program constants
OSS_DEFAULT_NFRAMES == 32
\* the float 1.0 (lines 795, 893), in the unit of the volumes here: halves
VolOne == 2

Threads == 1..MaxThreads

\* ------------------------------------------------------------ float values
\* A C float: a number (counted in halves) or NaN.  Every ordered
\* comparison with NaN is false.
Num(x) == [nan |-> FALSE, v |-> x]
NaN == [nan |-> TRUE, v |-> 0]
FLess(a, b) == ~a.nan /\ ~b.nan /\ a.v < b.v
VolumeInputs == {Num(x) : x \in (0 - 1)..(VolOne + 1)} \cup {NaN}
InUnitRange(f) == ~f.nan /\ 0 <= f.v /\ f.v <= VolOne

\* ------------------------------------------------------------------- state
VARIABLES
  c,     \* the control thread: pc (position), op (top-level call in progress),
         \* holds (it holds the mutex), arg (set_volume's local), ret
         \* (oss_stream_init's local ret)
  s,     \* struct cubeb_stream: alloc, handed (*stream = s done), running,
         \* volume, frames_written, thread, nfr, play, record, mutex
  io,    \* per I/O thread slot: pc, the locals of oss_io_routine, holds
  obs,   \* per I/O thread: what the application and the devices have seen
  h      \* history of the control thread's calls and of the devices

vars == <<c, s, io, obs, h>>

\* struct oss_stream
NoEndpoint == [fd |-> "none", buf |-> "null", channels |-> 0, precision |-> 0,
               frame_size |-> 0, floating |-> FALSE]

IoInit == [pc |-> "none", state |-> "STARTED", to_write |-> 0, to_read |-> 0,
           write_ofs |-> 0, read_ofs |-> 0, cb_nfr |-> 0, drain |-> FALSE,
           n |-> 0, holds |-> FALSE]

\* notes: the states passed to state_cb, in order; early: a data callback
\* came before STARTED; late: a data callback or device call came after the
\* terminal note; failed: the callback sentinel or device error that
\* happened ("no": none); afterFail: a callback or device call was issued
\* after it; short: the short frame count the last callback returned (-1:
\* none); afterShort: a data callback came after a short one; iterIO: a
\* device call was issued in the current iteration; badVol: a volume
\* outside [0, 1] was read for a conversion.
ObsInit == [notes |-> <<>>, early |-> FALSE, late |-> FALSE,
            failed |-> "no", afterFail |-> FALSE, short |-> 0 - 1,
            afterShort |-> FALSE, iterIO |-> FALSE, badVol |-> FALSE]

Init ==
  /\ c = [pc |-> "init_alloc", op |-> "init", holds |-> FALSE, arg |-> Num(VolOne),
          ret |-> "OK"]
  /\ s = [alloc |-> "none", handed |-> FALSE, running |-> FALSE, volume |-> Num(0),
          frames_written |-> 0, thread |-> 0, nfr |-> 0, play |-> NoEndpoint,
          record |-> NoEndpoint, mutex |-> "uninit"]
  /\ io = [t \in Threads |-> IoInit]
  /\ obs = [t \in Threads |-> ObsInit]
  /\ h = [reclog |-> <<>>, playlog |-> <<>>, initRet |-> "none",
          spawned |-> 0, lastPos |-> 0,
          wroteFrames |-> 0, uaf |-> FALSE, badJoin |-> FALSE,
          mutexMisuse |-> FALSE]

\* ------------------------------------------------------------------- mutex
\* pthread_mutex_t: free when no thread holds it.
MutexFree == ~c.holds /\ \A t \in Threads : ~io[t].holds

\* pthread_mutex_lock as the caller sees it.  On an initialised mutex the
\* caller blocks until it is free and then holds it.  On a mutex that was
\* never initialised or was destroyed the behaviour is undefined: the builds
\* either treat the storage as a usable mutex or return EINVAL at once (the
\* code ignores the result and goes on without holding anything).
\* LockOutcomes is the set of values "holds" may take when the call returns;
\* empty while the caller has to wait.
LockOutcomes ==
  IF s.mutex = "init"
    THEN (IF MutexFree THEN {TRUE} ELSE {})
    ELSE (IF MutexFree THEN {TRUE, FALSE} ELSE {FALSE})

\* history: some mutex call was made on a mutex that is not initialised
Misuse == h.mutexMisuse \/ s.mutex # "init"

\* -------------------------------------------------- sample format (501-523)
\* the format tags requested of a stream: the two 16-bit tags and a tag
\* the switch does not know
Formats == {"S16LE", "S16BE", "OTHER"}
FormatKnown(f) == f \in {"S16LE", "S16BE", "FLOAT32NE"}
Precision(f) == IF f = "FLOAT32NE" THEN 32 ELSE 16

\* a variant of oss_copy_params that pushes the channel count first
CopyParamsLog_channelsFirst(fmt, failAt) ==
  IF ~FormatKnown(fmt) THEN <<>>
  ELSE IF failAt = "CHANNELS" THEN <<"CHANNELS">>
  ELSE IF failAt = "SETFMT" THEN <<"CHANNELS", "SETFMT">>
  ELSE <<"CHANNELS", "SETFMT", "SPEED">>

\* oss_copy_params: the ioctls pushed to the device, in order.  failAt names
\* the first ioctl the device rejects ("none": all accepted).
CopyParamsLog(fmt, failAt) ==
  IF ~FormatKnown(fmt) THEN <<>>
  ELSE IF failAt = "SETFMT" THEN <<"SETFMT">>
  ELSE IF failAt = "CHANNELS" THEN <<"SETFMT", "CHANNELS">>
  ELSE <<"SETFMT", "CHANNELS", "SPEED">>

\* oss_copy_params: its return value
CopyParamsRet(fmt, failAt) ==
  IF ~FormatKnown(fmt) THEN "INVALID_FORMAT"
  ELSE IF failAt # "none" THEN "ERROR"
  ELSE "OK"

IoctlFailures == {"none", "SETFMT", "CHANNELS", "SPEED"}

\* ------------------------------------------------- oss_stream_init (715-852)
\* 847-851, the error label: s is not NULL on every path that jumps to it
\* after the allocation, so oss_stream_destroy(s) runs and ret is returned.
ErrorLabel == "destroy_mutex"

\* 735-751: allocate the stream, mark both handles absent, default block size
init_alloc ==
  /\ c.pc = "init_alloc"
  /\ \E ok \in BOOLEAN :
       IF ok
         THEN /\ s' = [s EXCEPT !.alloc = "alloc", !.nfr = OSS_DEFAULT_NFRAMES]
              /\ c' = [c EXCEPT !.pc = "init_record"]
              /\ h' = h
         ELSE /\ c' = [c EXCEPT !.pc = "nostream", !.op = "none", !.ret = "ERROR"]
              /\ h' = [h EXCEPT !.initRet = "ERROR"]
              /\ s' = s
  /\ UNCHANGED <<io, obs>>

\* One direction of 752-793: loopback check, open, oss_copy_params (501-534).
\* Yields the endpoint fields, the local ret, the device calls made and
\* whether construction goes on.  chans is the requested channel count and
\* granted the one the device writes back through the CHANNELS ioctl.
Negotiate(loopback, opens, fmt, failAt, chans, granted) ==
  IF loopback
    THEN [ep |-> NoEndpoint, ret |-> "NOT_SUPPORTED", log |-> <<>>, ok |-> FALSE]
  ELSE IF ~opens
    THEN [ep |-> NoEndpoint, ret |-> "DEVICE_UNAVAILABLE", log |-> <<"open">>,
          ok |-> FALSE]
  ELSE [ep |-> [NoEndpoint EXCEPT
                  !.fd = "open",
                  !.channels = IF FormatKnown(fmt) /\ failAt \in {"none", "SPEED"}
                                 THEN granted ELSE chans,
                  !.precision = IF FormatKnown(fmt) THEN Precision(fmt) ELSE 0,
                  !.floating = (CopyParamsRet(fmt, failAt) = "OK" /\ fmt = "FLOAT32NE")],
        ret |-> CopyParamsRet(fmt, failAt),
        log |-> <<"open">> \o CopyParamsLog(fmt, failAt),
        ok |-> (CopyParamsRet(fmt, failAt) = "OK")]

\* the channel counts requested and granted: mono, a frame of 2 bytes
ChannelCounts == {1}

NegotiationResults ==
  { Negotiate(lb, op, f, fa, ch, g) :
      lb \in BOOLEAN, op \in BOOLEAN, f \in Formats, fa \in IoctlFailures,
      ch \in ChannelCounts, g \in ChannelCounts }

\* 752-772: the record direction, when input parameters are given
init_record ==
  /\ c.pc = "init_record"
  /\ \/ /\ c' = [c EXCEPT !.pc = "init_play"]
        /\ UNCHANGED <<s, h>>
     \/ \E r \in NegotiationResults :
          /\ s' = [s EXCEPT !.record = r.ep]
          /\ h' = [h EXCEPT !.reclog = r.log]
          /\ c' = [c EXCEPT !.ret = r.ret,
                            !.pc = IF r.ok THEN "init_play" ELSE ErrorLabel]
  /\ UNCHANGED <<io, obs>>

\* 773-793: the playback direction, when output parameters are given
init_play ==
  /\ c.pc = "init_play"
  /\ \/ /\ c' = [c EXCEPT !.pc = "init_mutex"]
        /\ UNCHANGED <<s, h>>
     \/ \E r \in NegotiationResults :
          /\ s' = [s EXCEPT !.play = r.ep]
          /\ h' = [h EXCEPT !.playlog = r.log]
          /\ c' = [c EXCEPT !.ret = r.ret,
                            !.pc = IF r.ok THEN "init_mutex" ELSE ErrorLabel]
  /\ UNCHANGED <<io, obs>>

\* 794-802: volume 1.0, callbacks, pthread_mutex_init; on failure the code
\* jumps to the error label without assigning ret
init_mutex ==
  /\ c.pc = "init_mutex"
  /\ \E ok \in BOOLEAN :
       IF ok
         THEN /\ s' = [s EXCEPT !.volume = Num(VolOne), !.mutex = "init"]
              /\ c' = [c EXCEPT !.pc = "init_sizes"]
         ELSE /\ s' = [s EXCEPT !.volume = Num(VolOne)]
              /\ c' = [c EXCEPT !.pc = ErrorLabel]
  /\ UNCHANGED <<io, obs, h>>

\* A device's answer to SNDCTL_DSP_GETOSPACE / GETISPACE: the ioctl fails
\* (ok = FALSE) or reports fragstotal fragments of fragsize bytes; the
\* devices here report empty fragments or fragments of one frame.
QueueReports(frame_size) ==
  { [ok |-> o, fragstotal |-> ft, fragsize |-> fz] :
      o \in BOOLEAN, ft \in 0..MaxFrags, fz \in {0, frame_size} }

\* 729-730, 805-813, 816-824: playnfr / recnfr start at 1 and are raised to
\* the queue capacity in frames when the query succeeds and reports more
QueueFrames(q, frame_size) ==
  IF q.ok /\ 1 < (q.fragstotal * q.fragsize) \div frame_size
    THEN (q.fragstotal * q.fragsize) \div frame_size
    ELSE 1

\* 825-830: the block size s->nfr
BlockSize(playOpen, recOpen, playnfr, recnfr, current) ==
  IF playOpen /\ recOpen THEN (IF playnfr < recnfr THEN playnfr ELSE recnfr)
  ELSE IF playOpen THEN playnfr
  ELSE IF recOpen THEN recnfr
  ELSE current

\* a variant of the frame size that leaves out the channel count
FrameSize_oneChannel(ep) == ep.precision \div 8

\* 803-804, 814-815: frame_size = channels * (precision / 8)
FrameSize(ep) == ep.channels * (ep.precision \div 8)

\* 803-830 with the devices' answers pq (GETOSPACE) and rq (GETISPACE)
SizesStep(pq, rq) ==
  /\ c.pc = "init_sizes"
  /\ LET pfs == FrameSize(s.play)
         rfs == FrameSize(s.record)
         playnfr == IF s.play.fd # "none" THEN QueueFrames(pq, pfs) ELSE 1
         recnfr == IF s.record.fd # "none" THEN QueueFrames(rq, rfs) ELSE 1
     IN  s' = [s EXCEPT !.play.frame_size = pfs, !.record.frame_size = rfs,
                        !.nfr = BlockSize(s.play.fd # "none", s.record.fd # "none",
                                          playnfr, recnfr, s.nfr)]
  /\ c' = [c EXCEPT !.pc = "init_bufs"]
  /\ UNCHANGED <<io, obs, h>>

\* 803-830: frame sizes, queue queries, block size
init_sizes ==
  \E pq \in QueueReports(FrameSize(s.play)), rq \in QueueReports(FrameSize(s.record)) :
    SizesStep(pq, rq)

\* 832-846: allocate the buffers of the open directions and hand the
\* stream to the caller
init_bufs ==
  /\ c.pc = "init_bufs"
  /\ \E pok \in BOOLEAN, rok \in BOOLEAN :
       LET pneed == s.play.fd # "none"
           rneed == s.record.fd # "none"
       IN  IF pneed /\ ~pok
             THEN /\ s' = s
                  /\ c' = [c EXCEPT !.ret = "ERROR", !.pc = ErrorLabel]
                  /\ h' = h
           ELSE IF rneed /\ ~rok
             THEN /\ s' = [s EXCEPT !.play.buf = IF pneed THEN "alloc" ELSE "null"]
                  /\ c' = [c EXCEPT !.ret = "ERROR", !.pc = ErrorLabel]
                  /\ h' = h
           ELSE /\ s' = [s EXCEPT !.play.buf = IF pneed THEN "alloc" ELSE "null",
                                  !.record.buf = IF rneed THEN "alloc" ELSE "null",
                                  !.handed = TRUE]
                /\ c' = [c EXCEPT !.pc = "idle", !.op = "none", !.ret = "OK"]
                /\ h' = [h EXCEPT !.initRet = "OK"]
  /\ UNCHANGED <<io, obs>>

\* ------------------------------------------------- oss_stream_stop (536-548)
\* s->thread names a thread that was created and not joined yet
Joinable(th) == th \in Threads /\ io[th].pc # "none"

\* where oss_stream_stop returns to: its caller is the application or
\* oss_stream_destroy (line 554)
StopReturn(waited) ==
  /\ c' = [c EXCEPT !.pc = IF c.op = "stop" THEN "idle" ELSE "destroy_release",
                    !.op = IF c.op = "stop" THEN "none" ELSE c.op,
                    !.holds = FALSE]
  /\ h' = [h EXCEPT !.spawned = 0,
                    !.badJoin = @ \/ (waited /\ ~Joinable(s.thread))]

\* 539: pthread_mutex_lock, called by the application on a constructed
\* stream or by oss_stream_destroy
stop_lock ==
  /\ c.pc \in {"idle", "stop_lock"}
  /\ \E got \in LockOutcomes :
       c' = [c EXCEPT !.pc = "stop_check", !.holds = got,
                      !.op = IF c.pc = "idle" THEN "stop" ELSE c.op]
  /\ h' = [h EXCEPT !.mutexMisuse = Misuse]
  /\ UNCHANGED <<s, io, obs>>

\* a variant of stop that goes on to pthread_join without unlocking
stop_clear_keepLock ==
  /\ c.pc = "stop_check"
  /\ s.running
  /\ s' = [s EXCEPT !.running = FALSE]
  /\ c' = [c EXCEPT !.pc = "stop_join"]
  /\ h' = [h EXCEPT !.mutexMisuse = Misuse]
  /\ UNCHANGED <<io, obs>>

\* 540-542: running is set: clear it, unlock, go on to pthread_join
stop_clear ==
  /\ c.pc = "stop_check"
  /\ s.running
  /\ s' = [s EXCEPT !.running = FALSE]
  /\ c' = [c EXCEPT !.pc = "stop_join", !.holds = FALSE]
  /\ h' = [h EXCEPT !.mutexMisuse = Misuse]
  /\ UNCHANGED <<io, obs>>

\* 544-547: running is not set: unlock and return
stop_noop ==
  /\ c.pc = "stop_check"
  /\ ~s.running
  /\ StopReturn(FALSE)
  /\ UNCHANGED <<s, io, obs>>

\* a variant of pthread_join that never waits (a detached wait)
JoinReturns_nowait == TRUE

\* pthread_join(s->thread) may return: the thread has ended; or the handle
\* names no joinable thread (never created, or joined before), where the
\* behaviour is undefined and the builds return an error at once
JoinReturns ==
  Joinable(s.thread) => io[s.thread].pc \in {"exited", "crashed"}

\* 543, 547: pthread_join, then return; a joined thread's handle and what
\* was observed of its run are dropped, and the handle may be given out again
stop_join ==
  /\ c.pc = "stop_join"
  /\ JoinReturns
  /\ StopReturn(TRUE)
  /\ io' = IF Joinable(s.thread) THEN [io EXCEPT ![s.thread] = IoInit] ELSE io
  /\ obs' = IF Joinable(s.thread) THEN [obs EXCEPT ![s.thread] = ObsInit] ELSE obs
  /\ s' = s

\* ---------------------------------------------- oss_stream_destroy (550-564)
\* 553: pthread_mutex_destroy, called by the application on a constructed
\* stream or from the error label of oss_stream_init.  Destroying a mutex
\* that a thread holds is undefined: the builds refuse (EBUSY) or destroy it.
destroy_mutex ==
  /\ c.pc \in {"idle", "destroy_mutex"}
  /\ \E m \in (IF s.mutex = "init" /\ ~MutexFree THEN {"init", "destroyed"}
                                                ELSE {"destroyed"}) :
       s' = [s EXCEPT !.mutex = m]
  /\ c' = [c EXCEPT !.pc = "stop_lock",
                    !.op = IF c.pc = "idle" THEN "destroy" ELSE c.op]
  /\ h' = [h EXCEPT !.mutexMisuse = Misuse \/ ~MutexFree]
  /\ UNCHANGED <<io, obs>>

Closed(ep) == [ep EXCEPT !.fd = IF ep.fd = "open" THEN "closed" ELSE ep.fd,
                         !.buf = IF ep.buf = "alloc" THEN "freed" ELSE ep.buf]

\* 555-563: close the open handles, free the buffers and the stream
destroy_release ==
  /\ c.pc = "destroy_release"
  /\ s' = [s EXCEPT !.play = Closed(s.play), !.record = Closed(s.record),
                    !.alloc = "freed"]
  /\ c' = [c EXCEPT !.pc = IF c.op = "init" THEN "nostream" ELSE "freed",
                    !.op = "none"]
  /\ h' = [h EXCEPT !.initRet = IF c.op = "init" THEN c.ret ELSE h.initRet]
  /\ UNCHANGED <<io, obs>>

\* ------------------------------------------------ oss_stream_start (854-863)
\* 857-862: running = true without the lock, then pthread_create.  When the
\* creation fails *thread is left as it was or holds no valid handle.
FreeSlots == {t \in Threads : io[t].pc = "none"}
NewThread == CHOOSE t \in FreeSlots : \A u \in FreeSlots : t <= u

oss_stream_start ==
  /\ c.pc = "idle"
  /\ \/ /\ FreeSlots # {}
        /\ s' = [s EXCEPT !.running = TRUE, !.thread = NewThread]
        /\ io' = [io EXCEPT ![NewThread].pc = "notify_started"]
        /\ h' = [h EXCEPT !.spawned = NewThread]
     \/ /\ \E th \in {s.thread, 0} : s' = [s EXCEPT !.running = TRUE, !.thread = th]
        /\ UNCHANGED <<io, h>>
  /\ UNCHANGED <<c, obs>>

\* ----------------------------------------- oss_stream_get_position (865-872)
\* frames computed from a successful write that the thread has not added to
\* the counter yet (between lines 688 and 690)
RECURSIVE PendingFrames(_)
PendingFrames(T) ==
  IF T = {} THEN 0
  ELSE LET t == CHOOSE x \in T : TRUE
       IN  (IF io[t].pc \in {"lock_fw", "add_fw"} /\ s.play.frame_size > 0
              THEN io[t].n \div s.play.frame_size ELSE 0)
           + PendingFrames(T \ {t})

\* 868: pthread_mutex_lock
pos_lock ==
  /\ c.pc = "idle"
  /\ \E got \in LockOutcomes :
       c' = [c EXCEPT !.pc = "pos_read", !.op = "get_position", !.holds = got]
  /\ h' = [h EXCEPT !.mutexMisuse = Misuse]
  /\ UNCHANGED <<s, io, obs>>

\* 869-871: read the counter, unlock, return
pos_read ==
  /\ c.pc = "pos_read"
  /\ c' = [c EXCEPT !.pc = "idle", !.op = "none", !.holds = FALSE]
  /\ h' = [h EXCEPT !.lastPos = s.frames_written]
  /\ UNCHANGED <<s, io, obs>>

\* ------------------------------------------- oss_stream_set_volume (888-899)
\* 891-894: the clamp of the argument
ClampVolume(v) ==
  IF FLess(v, Num(0)) THEN Num(0)
  ELSE IF FLess(Num(VolOne), v) THEN Num(VolOne)
  ELSE v

\* 891-895: clamp, pthread_mutex_lock
vol_lock ==
  /\ c.pc = "idle"
  /\ \E v \in VolumeInputs, got \in LockOutcomes :
       /\ c' = [c EXCEPT !.pc = "vol_store", !.op = "set_volume", !.holds = got,
                         !.arg = ClampVolume(v)]
       /\ h' = [h EXCEPT !.mutexMisuse = Misuse]
  /\ UNCHANGED <<s, io, obs>>

\* 896-898: store, unlock, return
vol_store ==
  /\ c.pc = "vol_store"
  /\ s' = [s EXCEPT !.volume = c.arg]
  /\ c' = [c EXCEPT !.pc = "idle", !.op = "none", !.holds = FALSE,
                    !.arg = Num(VolOne)]
  /\ UNCHANGED <<io, obs, h>>

\* --------------------------------------------------- oss_io_routine (606-713)
\* every step of the routine reads or writes *s, a buffer or a handle
Touch == [h EXCEPT !.uaf = h.uaf \/ s.alloc = "freed"]

Terminal(st) == st \in {"STOPPED", "ERROR", "DRAINED"}
Told(t) == \E i \in 1..Len(obs[t].notes) : Terminal(obs[t].notes[i])

\* a variant of the short-block decision that drains in every direction
ShortBlock_alwaysDrain(playOpen, k, blockFrames) ==
  IF k < blockFrames THEN "drain" ELSE "go"

\* 660-673: what a callback result of k frames leads to: "go" (a full
\* block), "drain" (a short block with playback open) or "stop"
ShortBlock(playOpen, k, blockFrames) ==
  IF k < blockFrames THEN (IF playOpen THEN "drain" ELSE "stop") ELSE "go"

\* a variant of the frame count that counts bytes
FramesOf_bytes(n, frame_size) == n

\* 688, 701: frames = n / frame_size
FramesOf(n, frame_size) == n \div frame_size

\* a variant of the end of the retry loop where a marked drain wins over an
\* error
AfterLoop_drainWins(state, drain) ==
  IF drain THEN "DRAINED" ELSE state

\* 706-709: the state when the retry loop is left (by its condition or by a
\* break): DRAINED when a drain is marked and no error happened
AfterLoop(state, drain) ==
  IF drain /\ state # "ERROR" THEN "DRAINED" ELSE state

\* 678, 682, 695 and 619: the state and the position after one round of the
\* retry loop with to_write / to_read frames left
LoopState(to_write, to_read, state, drain) ==
  IF to_write > 0 \/ to_read > 0 THEN state ELSE AfterLoop(state, drain)

LoopPc(to_write, to_read, state, drain) ==
  IF to_write > 0 THEN "write"
  ELSE IF to_read > 0 THEN "read"
  ELSE IF AfterLoop(state, drain) = "STARTED" THEN "lock_run"
  ELSE "notify_term"

\* 660-677: after the conversion: the short-block decision and the setup of
\* the retry loop for a callback result of k frames
Setup(loc, k) ==
  LET what == ShortBlock(s.play.fd # "none", k, s.nfr)
      dr == loc.drain \/ what = "drain"
      tw == IF s.play.fd # "none" THEN k ELSE 0
      tr == IF s.record.fd # "none" THEN s.nfr ELSE 0
  IN  IF what = "stop"
        THEN [loc EXCEPT !.holds = FALSE, !.state = "STOPPED", !.pc = "notify_term"]
        ELSE [loc EXCEPT !.holds = FALSE, !.drain = dr,
                         !.to_write = tw, !.to_read = tr,
                         !.write_ofs = 0, !.read_ofs = 0,
                         !.state = LoopState(tw, tr, loc.state, dr),
                         !.pc = LoopPc(tw, tr, loc.state, dr)]

\* a variant of the entry of the routine that does not notify
io_notify_started_silent(t) ==
  /\ io[t].pc = "notify_started"
  /\ io' = [io EXCEPT ![t].pc = "lock_run"]
  /\ h' = Touch
  /\ UNCHANGED <<c, s, obs>>

\* 618: state_cb(STARTED)
io_notify_started(t) ==
  /\ io[t].pc = "notify_started"
  /\ io' = [io EXCEPT ![t].pc = "lock_run"]
  /\ obs' = [obs EXCEPT ![t].notes = Append(@, "STARTED")]
  /\ h' = Touch
  /\ UNCHANGED <<c, s>>

\* a variant of the tests at the top of the loop that leaves out the flag
LoopEnds_noFlag == s.play.fd = "none" /\ s.record.fd = "none"

\* 621, 627: the tests at the top of an iteration that end the loop in
\* STOPPED: the running flag is clear, or no handle is open
LoopEnds == ~s.running \/ (s.play.fd = "none" /\ s.record.fd = "none")

\* 620: pthread_mutex_lock
io_lock_run(t) ==
  /\ io[t].pc = "lock_run"
  /\ \E got \in LockOutcomes :
       io' = [io EXCEPT ![t].pc = "check_run", ![t].holds = got]
  /\ h' = [Touch EXCEPT !.mutexMisuse = Misuse]
  /\ UNCHANGED <<c, s, obs>>

\* 621-639: the running check, unlock, the check for an open handle (and the
\* conversion of the record buffer, which changes no modelled state)
io_check_run(t) ==
  /\ io[t].pc = "check_run"
  /\ io' = [io EXCEPT
              ![t].holds = FALSE,
              ![t].state = IF LoopEnds THEN "STOPPED" ELSE @,
              ![t].pc = IF LoopEnds THEN "notify_term" ELSE "data_cb"]
  /\ h' = Touch
  /\ UNCHANGED <<c, s, obs>>

\* what the data callback may return: CUBEB_ERROR (-1) or a frame count
CallbackResults == (0 - 1)..s.nfr

\* 640-644: the data callback; without playback also 660-677
io_data_cb(t) ==
  /\ io[t].pc = "data_cb"
  /\ \E k \in CallbackResults :
       /\ obs' = [obs EXCEPT
                    ![t].early = @ \/ obs[t].notes = <<>>,
                    ![t].late = @ \/ Told(t),
                    ![t].afterFail = @ \/ obs[t].failed # "no",
                    ![t].afterShort = @ \/ obs[t].short >= 0,
                    ![t].iterIO = FALSE,
                    ![t].failed = IF k < 0 THEN "callback" ELSE @,
                    ![t].short = IF 0 <= k /\ k < s.nfr THEN k ELSE @]
       /\ io' = [io EXCEPT ![t] =
                   IF k < 0
                     THEN [@ EXCEPT !.cb_nfr = k, !.state = "ERROR", !.pc = "notify_term"]
                   ELSE IF s.play.fd # "none"
                     THEN [@ EXCEPT !.cb_nfr = k, !.pc = "lock_vol"]
                   ELSE Setup([@ EXCEPT !.cb_nfr = k], k)]
  /\ h' = Touch
  /\ UNCHANGED <<c, s>>

\* 648: pthread_mutex_lock
io_lock_vol(t) ==
  /\ io[t].pc = "lock_vol"
  /\ \E got \in LockOutcomes :
       io' = [io EXCEPT ![t].pc = "read_vol", ![t].holds = got]
  /\ h' = [Touch EXCEPT !.mutexMisuse = Misuse]
  /\ UNCHANGED <<c, s, obs>>

\* 649-677: read the volume, unlock, convert cb_nfr frames with it, then the
\* short-block decision and the setup of the retry loop
io_read_vol(t) ==
  /\ io[t].pc = "read_vol"
  /\ io' = [io EXCEPT ![t] = Setup(@, io[t].cb_nfr)]
  /\ obs' = [obs EXCEPT ![t].badVol = @ \/ ~InUnitRange(s.volume)]
  /\ h' = Touch
  /\ UNCHANGED <<c, s>>

\* what write(fd, buf + ofs, bytes) / read(fd, buf + ofs, bytes) may return:
\* -1 or a byte count up to bytes
TransferResults(bytes) == (0 - 1)..bytes

\* the bytes a retry loop has moved beyond whole frames stay within MaxExtra
WithinExtra(ofs, n, framesDone, frame_size) ==
  ofs + n <= (framesDone + n \div frame_size) * frame_size + MaxExtra

\* the request a thread is about to make of a device fits the buffer of
\* nfr frames allocated at 832-843 and starts on a frame
InBuffer(ofs, frames, frame_size) ==
  /\ ofs % frame_size = 0
  /\ ofs + frames * frame_size <= s.nfr * frame_size

\* what write and read return in a run where every call returns an error
\* or a positive count
PositiveResults(bytes) == TransferResults(bytes) \ {0}

\* 683-688: write to the playback device, the device returning n; on
\* success the frames it counts
WriteStep(t, n) ==
       /\ n >= 0 => /\ h.wroteFrames + n \div s.play.frame_size <= MaxPos
                    /\ WithinExtra(io[t].write_ofs, n, io[t].cb_nfr - io[t].to_write,
                                   s.play.frame_size)
       /\ io' = [io EXCEPT
                    ![t].n = IF n < 0 THEN 0 ELSE n,
                    ![t].state = IF n < 0 THEN AfterLoop("ERROR", io[t].drain) ELSE @,
                    ![t].pc = IF n < 0 THEN "notify_term" ELSE "lock_fw"]
       /\ obs' = [obs EXCEPT
                    ![t].late = @ \/ Told(t),
                    ![t].afterFail = @ \/ obs[t].failed # "no",
                    ![t].iterIO = TRUE,
                    ![t].failed = IF n < 0 THEN "write" ELSE @]
       /\ h' = [Touch EXCEPT !.wroteFrames =
                  IF n < 0 THEN @ ELSE @ + n \div s.play.frame_size]
       /\ UNCHANGED <<c, s>>

io_write(t) ==
  /\ io[t].pc = "write"
  /\ \E n \in TransferResults(io[t].to_write * s.play.frame_size) : WriteStep(t, n)

io_write_positive(t) ==
  /\ io[t].pc = "write"
  /\ \E n \in PositiveResults(io[t].to_write * s.play.frame_size) : WriteStep(t, n)

\* 689: pthread_mutex_lock
io_lock_fw(t) ==
  /\ io[t].pc = "lock_fw"
  /\ \E got \in LockOutcomes :
       io' = [io EXCEPT ![t].pc = "add_fw", ![t].holds = got]
  /\ h' = [Touch EXCEPT !.mutexMisuse = Misuse]
  /\ UNCHANGED <<c, s, obs>>

\* 690-694: add the frames to the counter, unlock, advance the retry loop
io_add_fw(t) ==
  /\ io[t].pc = "add_fw"
  /\ LET frames == FramesOf(io[t].n, s.play.frame_size)
         tw == io[t].to_write - frames
     IN  /\ s' = [s EXCEPT !.frames_written = @ + frames]
         /\ io' = [io EXCEPT
                     ![t].holds = FALSE, ![t].n = 0,
                     ![t].to_write = tw,
                     ![t].write_ofs = @ + io[t].n,
                     ![t].state = IF io[t].to_read > 0 THEN @
                                  ELSE LoopState(tw, 0, io[t].state, io[t].drain),
                     ![t].pc = IF io[t].to_read > 0 THEN "read"
                               ELSE LoopPc(tw, 0, io[t].state, io[t].drain)]
  /\ h' = Touch
  /\ UNCHANGED <<c, obs>>

\* 696-703: read from the record device, the device returning n, and
\* advance the retry loop
ReadStep(t, n) ==
       /\ n >= 0 => WithinExtra(io[t].read_ofs, n, s.nfr - io[t].to_read,
                                s.record.frame_size)
       /\ LET tr == io[t].to_read - FramesOf(n, s.record.frame_size)
          IN  io' = [io EXCEPT
                       ![t].to_read = IF n < 0 THEN @ ELSE tr,
                       ![t].read_ofs = IF n < 0 THEN @ ELSE @ + n,
                       ![t].state = IF n < 0 THEN AfterLoop("ERROR", io[t].drain)
                                    ELSE LoopState(io[t].to_write, tr, io[t].state, io[t].drain),
                       ![t].pc = IF n < 0 THEN "notify_term"
                                 ELSE LoopPc(io[t].to_write, tr, io[t].state, io[t].drain)]
       /\ obs' = [obs EXCEPT
                    ![t].late = @ \/ Told(t),
                    ![t].afterFail = @ \/ obs[t].failed # "no",
                    ![t].iterIO = TRUE,
                    ![t].failed = IF n < 0 THEN "read" ELSE @]
       /\ h' = Touch
       /\ UNCHANGED <<c, s>>

io_read(t) ==
  /\ io[t].pc = "read"
  /\ \E n \in TransferResults(io[t].to_read * s.record.frame_size) : ReadStep(t, n)

io_read_positive(t) ==
  /\ io[t].pc = "read"
  /\ \E n \in PositiveResults(io[t].to_read * s.record.frame_size) : ReadStep(t, n)

\* 711-712: state_cb(state), return (the locals are gone)
io_notify_term(t) ==
  /\ io[t].pc = "notify_term"
  /\ io' = [io EXCEPT ![t] = [IoInit EXCEPT !.pc = "exited", !.state = io[t].state]]
  /\ obs' = [obs EXCEPT ![t].notes = Append(@, io[t].state)]
  /\ h' = Touch
  /\ UNCHANGED <<c, s>>

\* A thread that is still in the routine after free(s) reads freed memory:
\* it goes on as above or the process faults.
io_fault(t) ==
  /\ io[t].pc \notin {"none", "exited", "crashed"}
  /\ s.alloc = "freed"
  /\ io' = [io EXCEPT ![t] = [IoInit EXCEPT !.pc = "crashed"]]
  /\ h' = Touch
  /\ UNCHANGED <<c, s, obs>>

\* 683, 697: write(fd, buf + write_ofs, ...) and read(fd, buf + read_ofs,
\* ...) with a range that leaves the buffer of calloc(nfr, frame_size): the
\* access is undefined; the thread goes on as above or the process faults.
io_overrun(t) ==
  /\ \/ io[t].pc = "write"
          /\ ~InBuffer(io[t].write_ofs, io[t].to_write, s.play.frame_size)
     \/ io[t].pc = "read"
          /\ ~InBuffer(io[t].read_ofs, io[t].to_read, s.record.frame_size)
  /\ io' = [io EXCEPT ![t] = [IoInit EXCEPT !.pc = "crashed"]]
  /\ h' = Touch
  /\ UNCHANGED <<c, s, obs>>

\* ----------------------------------------------------------- specifications
Ctor == init_alloc \/ init_record \/ init_play \/ init_mutex \/ init_sizes \/ init_bufs
Stop == stop_lock \/ stop_clear \/ stop_noop \/ stop_join
Destroy == destroy_mutex \/ destroy_release
Position == pos_lock \/ pos_read
Volume == vol_lock \/ vol_store

IoStep(t) ==
  \/ io_notify_started(t) \/ io_lock_run(t) \/ io_check_run(t) \/ io_data_cb(t)
  \/ io_lock_vol(t) \/ io_read_vol(t) \/ io_write(t) \/ io_lock_fw(t)
  \/ io_add_fw(t) \/ io_read(t) \/ io_notify_term(t)

Io == \E t \in Threads : IoStep(t)
Fault == \E t \in Threads : io_fault(t)
Overrun == \E t \in Threads : io_overrun(t)

\* The program under every application: any call at any time.
Next ==
  \/ Ctor \/ oss_stream_start \/ Stop \/ Destroy \/ Position \/ Volume \/ Io \/ Fault
  \/ Overrun

Spec == Init /\ [][Next]_vars

\* The application calls start only on a stream none of whose threads is
\* left unjoined (a new stream, or one it has stopped).
start_stopped == FreeSlots = Threads /\ oss_stream_start

\* Construction alone, with the cleanup of its failures.
NextCtor ==
  \/ Ctor
  \/ (c.op = "init" /\ (destroy_mutex \/ stop_lock \/ stop_noop \/ destroy_release))

SpecCtor == Init /\ [][NextCtor]_vars

\* An application that constructs, starts (a stopped stream), stops and
\* destroys.
NextRun == Ctor \/ start_stopped \/ Stop \/ Destroy \/ Io

SpecRun == Init /\ [][NextRun]_vars

\* An application that constructs, starts (a stopped stream), stops, sets the
\* volume and asks for the position.
NextPos == Ctor \/ start_stopped \/ Stop \/ Position \/ Volume \/ Io

SpecPos == Init /\ [][NextPos]_vars

\* An application that opens one direction per stream (input parameters or
\* output parameters, or neither), starts at any time, also while a thread
\* of an earlier start is running, and destroys.
OneDirection == s'.play.fd = "none" \/ s'.record.fd = "none"

NextMT ==
  \/ (Ctor /\ OneDirection) \/ oss_stream_start \/ Destroy
  \/ (c.pc # "idle" /\ Stop)
  \/ Io \/ Fault

SpecMT == Init /\ [][NextMT]_vars

\* An application that constructs, starts (a stopped stream) and stops,
\* with callbacks that return and devices whose calls return an error or a
\* positive count, under fair scheduling: a thread that can take a step
\* takes one, also when it has to wait for the mutex, and a stop that was
\* called goes on.
IoStepLive(t) ==
  \/ io_notify_started(t) \/ io_lock_run(t) \/ io_check_run(t) \/ io_data_cb(t)
  \/ io_lock_vol(t) \/ io_read_vol(t) \/ io_write_positive(t) \/ io_lock_fw(t)
  \/ io_add_fw(t) \/ io_read_positive(t) \/ io_notify_term(t)

IoLive == \E t \in Threads : IoStepLive(t)

NextLive == Ctor \/ start_stopped \/ Stop \/ IoLive \/ Overrun

Fairness ==
  /\ WF_vars(stop_clear \/ stop_noop \/ stop_join)
  /\ \A t \in Threads : SF_vars(IoStepLive(t))

SpecLive == Init /\ [][NextLive]_vars /\ Fairness

\* ------------------------------------------------- the block size, alone
\* largest channel count negotiated and largest fragment count reported
MaxChannels == 2
MaxQueueFrags == 4
\* fragment sizes in bytes the devices report
FragSizes == {0, 2, 256}

\* a direction after negotiation: not requested, or open with its channel
\* count and precision (lines 505-519)
NegotiatedEndpoints ==
  {NoEndpoint} \cup
  { [NoEndpoint EXCEPT !.fd = "open", !.channels = ch, !.precision = pr,
                       !.floating = (pr = 32)] :
      ch \in 1..MaxChannels, pr \in {16, 32} }

DeviceQueues ==
  { [ok |-> o, fragstotal |-> ft, fragsize |-> fz] :
      o \in BOOLEAN, ft \in 0..MaxQueueFrags, fz \in FragSizes }

\* oss_stream_init at line 803, for every pair of negotiated directions and
\* every pair of answers the devices give to the queue queries (pq, rq)
InitSizes ==
  /\ c = [pc |-> "init_sizes", op |-> "init", holds |-> FALSE, arg |-> Num(VolOne),
          ret |-> "OK"]
  /\ \E pe \in NegotiatedEndpoints, re \in NegotiatedEndpoints :
       s = [alloc |-> "alloc", handed |-> FALSE, running |-> FALSE,
            volume |-> Num(VolOne), frames_written |-> 0, thread |-> 0,
            nfr |-> OSS_DEFAULT_NFRAMES, play |-> pe, record |-> re,
            mutex |-> "init"]
  /\ io = [t \in Threads |-> IoInit]
  /\ obs = [t \in Threads |-> ObsInit]
  /\ \E pq \in DeviceQueues, rq \in DeviceQueues :
       h = [pq |-> pq, rq |-> rq]

sizes_reported == SizesStep(h.pq, h.rq)

SpecSizes == InitSizes /\ [][sizes_reported]_vars

\* ------------------------------ oss_linear16_set_vol (595-604), alone
\* 0x8000 (line 599) and the shift by 15 bits (line 602)
FullScale16 == 32768
\* a float volume v is carried here as the fraction num / VolDen
VolDen == 65536
\* samples in a buffer
BufLen == 2

\* the conversion to int16_t of the store at line 602: two's complement wrap
Wrap16(v) == ((v + 32768) % 65536) - 32768

\* 599: int32_t multiplier = vol * 0x8000: the product truncated to int
\* (num / VolDen * 0x8000, with the common factor 2 taken out of both sides)
Multiplier(num) == (num * (FullScale16 \div 2)) \div (VolDen \div 2)

\* a variant of the shift that rounds toward zero
ShiftRight15_towardZero(v) ==
  IF v < 0 THEN 0 - ((0 - v) \div FullScale16) ELSE v \div FullScale16

\* v >> 15 on a signed int: the arithmetic shift of the builds, which
\* rounds toward minus infinity
ShiftRight15(v) == v \div FullScale16

\* 602: buf[i] = (buf[i] * multiplier) >> 15, the product computed in a
\* 32-bit int, whose range is also the range of the integers of TLC: a
\* product outside it stops the check with an overflow error
Linear16(x, multiplier) == Wrap16(ShiftRight15(x * multiplier))

\* 601-603: the first sample_count samples are scaled in place
Linear16SetVol(buf, sample_count, num) ==
  [i \in 1..Len(buf) |->
     IF i <= sample_count THEN Linear16(buf[i], Multiplier(num)) ELSE buf[i]]

Samples16 == {0 - 32768, 0 - 32767, 0 - 3, 0 - 1, 0, 1, 3, 32767}
\* volumes in [0, 1]: 0, the smallest steps, around 0.5, just below 1, 1
VolumeNums == {0, 1, 2, 3, 32768, 32769, 65535, 65536}
RECURSIVE Buffers(_)
Buffers(n) ==
  IF n = 0 THEN {<<>>}
  ELSE {Append(b, x) : b \in Buffers(n - 1), x \in Samples16}

\* the call at line 656 for every buffer, every count of samples the
\* callback produced (channels * cb_nfr) and every volume
InitVol16 ==
  /\ c = [pc |-> "set_vol", op |-> "io", holds |-> FALSE, arg |-> Num(VolOne),
          ret |-> "OK"]
  /\ s = [alloc |-> "alloc", handed |-> TRUE, running |-> TRUE,
          volume |-> Num(VolOne), frames_written |-> 0, thread |-> 1,
          nfr |-> BufLen,
          play |-> [NoEndpoint EXCEPT !.fd = "open", !.buf = "alloc",
                                      !.channels = 1, !.precision = 16,
                                      !.frame_size = 2],
          record |-> NoEndpoint, mutex |-> "init"]
  /\ io = [t \in Threads |-> IoInit]
  /\ obs = [t \in Threads |-> ObsInit]
  /\ \E b \in Buffers(BufLen), n \in 0..BufLen, v \in VolumeNums :
       h = [buf |-> b, count |-> n, vol |-> v, out |-> b]

linear16_set_vol ==
  /\ c.pc = "set_vol"
  /\ h' = [h EXCEPT !.out = Linear16SetVol(h.buf, h.count, h.vol)]
  /\ c' = [c EXCEPT !.pc = "done"]
  /\ UNCHANGED <<s, io, obs>>

SpecVol16 == InitVol16 /\ [][linear16_set_vol]_vars

\* -------------------------------------------------------------- properties
RecordOnly == s.play.fd = "none" /\ s.record.fd # "none"
PlaybackActive == s.play.fd # "none"
Ended(t) == io[t].pc = "exited"

\* C1: in every run of the I/O thread the state callback gets STARTED exactly
\* once and before the first data callback, and exactly one terminal state
\* (STOPPED, ERROR or DRAINED) when the loop exits; no data callback and no
\* device read or write comes after the terminal notification.
C1_StateNotifications ==
  \A t \in Threads :
    LET notes == obs[t].notes IN
    /\ ~obs[t].early /\ ~obs[t].late
    /\ Len(notes) <= 2
    /\ Len(notes) >= 1 => notes[1] = "STARTED"
    /\ Len(notes) = 2 => (Terminal(notes[2]) /\ Ended(t))
    /\ (io[t].pc \in {"none", "notify_started"}) <=> (notes = <<>>)
    /\ Ended(t) => (Len(notes) = 2 /\ notes[2] = io[t].state)

\* a thread that ran data callbacks, flushed a short block and ended DRAINED
C1_Witness ==
  \E t \in Threads :
    /\ Ended(t) /\ obs[t].notes = <<"STARTED", "DRAINED">>
    /\ obs[t].short >= 0 /\ obs[t].iterIO

\* C2: stop on a started stream returns only when the thread spawned by the
\* preceding start has exited with its terminal notification delivered,
\* wherever the thread was when stop was called; stop on a stream that is
\* not running changes no state and waits on nothing.
C2_StopJoins ==
  [][ /\ (c.pc = "stop_check" /\ c'.pc # "stop_check" /\ h.spawned # 0 /\ s.running)
        => c'.pc = "stop_join"
      /\ (c.pc = "stop_join" /\ c'.pc # "stop_join" /\ h.spawned # 0)
        => (Ended(h.spawned) /\ Told(h.spawned))
      /\ (c.pc = "stop_check" /\ c'.pc # "stop_check" /\ ~s.running)
        => (c'.pc # "stop_join" /\ s' = s /\ io' = io /\ obs' = obs)
    ]_vars

\* stop waits while the thread it has to join is inside a device write
C2_Witness ==
  /\ c.pc = "stop_join" /\ c.op = "stop" /\ h.spawned # 0
  /\ io[h.spawned].pc = "write"

C4_DrainFlush ==
  \A t \in Threads :
    (PlaybackActive /\ obs[t].short >= 0 /\ obs[t].failed = "no")
      => /\ ~obs[t].afterShort
         /\ io[t].pc = "notify_term"
              => /\ io[t].state = "DRAINED"
                 /\ io[t].write_ofs = obs[t].short * s.play.frame_size
         /\ Ended(t) => obs[t].notes = <<"STARTED", "DRAINED">>

\* C5: a callback error sentinel, a failed write and a failed read each end
\* the run in ERROR, reported once; nothing is retried or issued after the
\* failure; a callback sentinel causes no device call in its iteration; an
\* error during a drain flush gives ERROR, not DRAINED.
C5_ErrorEnds ==
  \A t \in Threads :
    /\ ~obs[t].afterFail
    /\ obs[t].failed # "no"
         => /\ io[t].pc \in {"notify_term", "exited"}
            /\ io[t].state = "ERROR"
            /\ obs[t].failed = "callback" => ~obs[t].iterIO
            /\ Ended(t) => obs[t].notes = <<"STARTED", "ERROR">>

\* a write that failed during a drain flush, reported as ERROR
C5_Witness ==
  \E t \in Threads :
    /\ Ended(t) /\ obs[t].failed = "write" /\ obs[t].short >= 0
    /\ obs[t].notes = <<"STARTED", "ERROR">>

\* C6: the values get_position returns never decrease, across stop and a new
\* start and whatever volume is set, and each equals the frames of the
\* successful playback writes counted so far (those written less those a
\* thread has not added yet); a failed write adds nothing.
C6_Position ==
  [][ /\ h'.lastPos >= h.lastPos
      /\ (c.pc = "pos_read" /\ c'.pc = "idle")
           => h'.lastPos = h.wroteFrames - PendingFrames(Threads)
      /\ s'.frames_written >= s.frames_written
      /\ s'.frames_written = h'.wroteFrames - PendingFrames(Threads)'
    ]_vars

\* a position above zero was returned, more frames were counted since, and
\* the next get_position is about to return
C6_Witness ==
  /\ h.lastPos > 0 /\ s.frames_written > h.lastPos
  /\ c.pc = "pos_read"

\* C7: the stored volume lies in [0.0, 1.0] after construction and after
\* any set_volume; so does every volume an I/O thread reads for a conversion.
C7_VolumeInRange ==
  /\ (s.handed /\ s.alloc = "alloc") => InUnitRange(s.volume)
  /\ \A t \in Threads : ~obs[t].badVol

\* C8: a start whose thread creation fails leaves the stream unstarted: the
\* running flag is set only while a thread created by start is unjoined, and
\* stop never waits on a thread that was not created.
C8_FailedStart ==
  /\ s.running => h.spawned # 0
  /\ ~h.badJoin

\* C9: a construction that fails returns a non-OK code, hands no stream to
\* the caller and leaves no handle open and no buffer allocated; one that
\* returns OK hands a fully built stream.
C9_Construction ==
  /\ c.pc = "nostream"
       => /\ h.initRet \notin {"OK", "none"}
          /\ ~s.handed
          /\ s.alloc \in {"none", "freed"}
          /\ s.play.fd # "open" /\ s.record.fd # "open"
          /\ s.play.buf # "alloc" /\ s.record.buf # "alloc"
  /\ h.initRet = "OK" => s.handed

\* C10: in a record-only stream a callback result 0 <= k < blockFrames ends
\* the loop with STOPPED, with no device read or write in that iteration or
\* after it.
C10_RecordOnlyStop ==
  \A t \in Threads :
    (RecordOnly /\ obs[t].short >= 0)
      => /\ io[t].pc \in {"notify_term", "exited"}
         /\ io[t].state = "STOPPED"
         /\ ~obs[t].iterIO /\ ~obs[t].late
         /\ Ended(t) => obs[t].notes = <<"STARTED", "STOPPED">>

\* a record-only thread that ended on a short block
C10_Witness ==
  \E t \in Threads :
    /\ RecordOnly /\ obs[t].short >= 0
    /\ Ended(t) /\ obs[t].notes = <<"STARTED", "STOPPED">>

\* C11: a construction request carrying the loopback preference in either
\* direction fails with the not-supported error, hands no stream, and no
\* device was opened or configured for it, whether or not the other
\* direction is requested too.
C11_LoopbackRejected ==
  c.ret = "NOT_SUPPORTED"
    => /\ ~s.handed
       /\ h.reclog = <<>> /\ h.playlog = <<>>
       /\ s.record.fd = "none" /\ s.play.fd = "none"

\* the device calls of one direction come in the order open, format,
\* channels, rate
NegotiationOrder == <<"open", "SETFMT", "CHANNELS", "SPEED">>
InOrder(log) ==
  /\ Len(log) <= Len(NegotiationOrder)
  /\ \A i \in 1..Len(log) : log[i] = NegotiationOrder[i]

\* construction has left the negotiation by its error label
Aborted == c.pc \in {"destroy_mutex", "stop_lock", "stop_check", "destroy_release",
                     "nostream"}

\* C19: for each direction the device gets format, then channels, then
\* rate, after the open; the first setting it rejects aborts construction
\* with the generic error and nothing later is pushed; a failed open gives
\* the device-unavailable error and an unknown format tag the
\* invalid-format error, both with no setting pushed.
C19_Direction(log, ep) ==
  /\ InOrder(log)
  /\ (log = <<"open">> /\ ep.fd = "none")
       => (Aborted /\ c.ret = "DEVICE_UNAVAILABLE")
  /\ (log = <<"open">> /\ ep.fd # "none")
       => (Aborted /\ c.ret = "INVALID_FORMAT")
  /\ Len(log) \in {2, 3} => (Aborted /\ c.ret = "ERROR")

\* C19, for both directions: the order of the settings and the error code of
\* each way negotiation fails
C19_NegotiationOrder ==
  /\ C19_Direction(h.reclog, s.record)
  /\ C19_Direction(h.playlog, s.play)
  /\ (c.ret = "DEVICE_UNAVAILABLE" \/ c.ret = "INVALID_FORMAT")
       => (h.reclog = <<"open">> \/ h.playlog = <<"open">>)

\* the record device took its settings, the playback device rejected the
\* channel count, and construction returned the generic error
C19_Witness ==
  /\ c.pc = "nostream" /\ h.initRet = "ERROR"
  /\ h.reclog = NegotiationOrder
  /\ h.playlog = <<"open", "SETFMT", "CHANNELS">>

\* the device's answer: the query succeeded with ft fragments of fz bytes
Reported(q, ft, fz) == q.ok /\ q.fragstotal = ft /\ q.fragsize = fz

\* playback only, 2 channels, 16 bit, a queue of 4 fragments of 256 bytes
Scenario12 ==
  /\ c.pc = "init_bufs"
  /\ s.play.fd = "open" /\ s.record.fd = "none"
  /\ s.play.channels = 2 /\ s.play.precision = 16
  /\ Reported(h.pq, 4, 256)

\* C12 as stated: in that scenario the block size is 32 frames.
C12_BlockSize32 == Scenario12 => (s.play.frame_size = 4 /\ s.nfr = 32)

\* C12, amended: in that scenario the frame size is 4 bytes and the block
\* size, which line 640 passes to every data callback, is the queue
\* capacity 4 * 256 / 4 = 256 frames.
C12_BlockSize256 == Scenario12 => (s.play.frame_size = 4 /\ s.nfr = 256)

C12_Witness == Scenario12 /\ s.nfr = 256

\* queue capacity in frames as the device reports it
Capacity(q, frame_size) == (q.fragstotal * q.fragsize) \div frame_size
\* the device reports no capacity: the query fails or gives zero frames
NoCapacity(q, frame_size) == ~q.ok \/ Capacity(q, frame_size) = 0
Min(a, b) == IF a < b THEN a ELSE b

\* C14: the block size is the smaller queue capacity when both directions
\* are open, the capacity of the open direction otherwise, at least 1, and
\* the default of 32 frames when an open direction's device reports a
\* capacity of zero or its query fails.
C14_BlockSizePolicy ==
  LET po == s.play.fd # "none"
      ro == s.record.fd # "none"
      pfs == s.play.frame_size
      rfs == s.record.frame_size
  IN  (c.pc = "init_bufs" /\ (po \/ ro))
        => /\ s.nfr >= 1
           /\ ((po /\ NoCapacity(h.pq, pfs)) \/ (ro /\ NoCapacity(h.rq, rfs)))
                => s.nfr = OSS_DEFAULT_NFRAMES
           /\ (po /\ ro /\ ~NoCapacity(h.pq, pfs) /\ ~NoCapacity(h.rq, rfs))
                => s.nfr = Min(Capacity(h.pq, pfs), Capacity(h.rq, rfs))
           /\ (po /\ ~ro /\ ~NoCapacity(h.pq, pfs)) => s.nfr = Capacity(h.pq, pfs)
           /\ (ro /\ ~po /\ ~NoCapacity(h.rq, rfs)) => s.nfr = Capacity(h.rq, rfs)

\* positions of the routine between two retry loops: the last retry loop
\* is over and the next one has not been set up
BetweenBlocks(t) == io[t].pc \in {"lock_run", "check_run", "data_cb", "notify_term"}

\* C13: when a retry loop ends without a device error, the bytes its writes
\* returned add up to the bytes requested for the block (frames the
\* callback produced x playback frame size), and the bytes its reads
\* returned to block size x record frame size, whatever partial counts the
\* device returned.
C13_BytesTransferred ==
  \A t \in Threads :
    (BetweenBlocks(t) /\ obs[t].iterIO /\ obs[t].failed = "no")
      => /\ PlaybackActive
              => io[t].write_ofs = io[t].cb_nfr * s.play.frame_size
         /\ s.record.fd # "none"
              => io[t].read_ofs = s.nfr * s.record.frame_size

\* C15: an iteration that checks the running flag after the control thread
\* cleared it ends the loop in STOPPED with no data callback and no device
\* call; while the flag is clear no thread comes to the data callback, so
\* only an iteration that had passed its check makes one more; clearing the
\* flag changes nothing of the I/O thread's state.
C15_StopObserved ==
  [][ \A t \in Threads :
        /\ (io[t].pc = "check_run" /\ io'[t] # io[t] /\ ~s.running)
             => (io'[t].pc = "notify_term" /\ io'[t].state = "STOPPED"
                 /\ obs'[t] = obs[t])
        /\ (io'[t].pc = "data_cb" /\ ~s.running) => io'[t] = io[t]
        /\ (s.running /\ ~s'.running) => (io' = io /\ obs' = obs)
    ]_vars

\* stop has cleared the flag and waits, while the thread, which had passed
\* its check, is about to make its one more data callback
C15_Witness ==
  /\ c.pc = "stop_join" /\ ~s.running /\ h.spawned # 0
  /\ io[h.spawned].pc = "data_cb"

\* positions where the I/O thread is inside the data callback, the state
\* callback or a device call
InCallOut(t) == io[t].pc \in {"notify_started", "data_cb", "write", "read", "notify_term"}

\* C16: the I/O thread does not hold the mutex inside the data callback,
\* the state callback or a device read or write, and the control thread
\* does not hold it while it waits in pthread_join: a thread holds the mutex
\* only between a lock and the next step, which releases it, so whoever
\* waits for the mutex (get_position, set_volume, stop, the loop) waits for
\* one step of its holder and stop's wait is for a thread that can go on.
C16_NoLockAcrossCalls ==
  /\ \A t \in Threads :
       /\ InCallOut(t) => ~io[t].holds
       /\ io[t].holds => io[t].pc \in {"check_run", "read_vol", "add_fw"}
  /\ c.holds => c.pc \in {"stop_check", "pos_read", "vol_store"}
  /\ c.pc = "stop_join" => ~c.holds
  /\ Cardinality({t \in Threads : io[t].holds}) + (IF c.holds THEN 1 ELSE 0) <= 1

\* get_position holds the mutex while the I/O thread is inside a device
\* write
C16_Witness ==
  /\ c.pc = "pos_read" /\ c.holds
  /\ \E t \in Threads : io[t].pc = "write"

\* some thread holds the stream mutex
MutexHeld == c.holds \/ \E t \in Threads : io[t].holds

\* a thread is in the routine: created and not yet returned or faulted
Live(t) == io[t].pc \notin {"none", "exited", "crashed"}

\* C17: on a constructed stream the running flag, the volume and the
\* frames-written counter change only in a step of a thread that holds the
\* stream mutex.
C17_LockedAccess ==
  [][ (s.handed /\ s.alloc = "alloc"
       /\ (s'.running # s.running \/ s'.volume # s.volume
           \/ s'.frames_written # s.frames_written))
        => MutexHeld
    ]_vars

\* C18: at most one I/O thread of the stream is live at any moment, and
\* when the stream is freed every thread that start spawned has been joined.
C18_OneThread ==
  /\ Cardinality({t \in Threads : Live(t)}) <= 1
  /\ s.alloc = "freed" => \A t \in Threads : io[t].pc = "none"

Abs(x) == IF x < 0 THEN 0 - x ELSE x

\* y is the integer floor of a / b, for b > 0
IsFloor(y, a, b) == y * b <= a /\ a < (y + 1) * b

\* C20: with m = floor(v * 32768) for a volume v in [0, 1], every scaled
\* sample x becomes floor(x * m / 32768), which is a 16-bit value of
\* magnitude at most |x|; volume 1.0 leaves x, volume 0.0 gives 0, volume
\* 0.5 gives floor(x / 2); samples beyond the count passed are left alone.
C20_Linear16 ==
  c.pc = "done" =>
    LET m == Multiplier(h.vol) IN
    /\ IsFloor(m, h.vol * 16384, 32768) /\ m \in 0..32768
    /\ \A i \in 1..Len(h.buf) :
         LET x == h.buf[i]
             y == h.out[i]
         IN  IF i <= h.count
               THEN /\ IsFloor(y, x * m, 32768)
                    /\ y \in (0 - 32768)..32767
                    /\ Abs(y) <= Abs(x)
                    /\ h.vol = VolDen => y = x
                    /\ h.vol = 0 => y = 0
                    /\ 2 * h.vol = VolDen => IsFloor(y, x, 2)
               ELSE y = x

\* volume 0.5 applied to the first sample only: -3 became -2, the second
\* sample is untouched
C20_Witness ==
  /\ c.pc = "done" /\ 2 * h.vol = VolDen /\ h.count = 1
  /\ h.buf[1] = 0 - 3 /\ h.out[1] = 0 - 2 /\ h.out[2] = h.buf[2] /\ h.buf[2] # 0

\* C21: every pthread_mutex_lock, unlock and destroy on the stream mutex is
\* made while the mutex is initialised: no destroy before pthread_mutex_init
\* succeeded (the error label of construction included), and no lock or
\* unlock by stop or by an I/O thread after destroy destroyed it.
C21_MutexLifetime == ~h.mutexMisuse

\* C22: every write and read of the retry loop stays inside the buffer of
\* its direction: offset plus requested bytes is at most block size x frame
\* size and the offset is a multiple of the frame size, for every callback
\* result and every sequence of partial counts the device returns.
C22_InsideBuffer ==
  \A t \in Threads :
    /\ io[t].pc = "write"
         => InBuffer(io[t].write_ofs, io[t].to_write, s.play.frame_size)
    /\ io[t].pc = "read"
         => InBuffer(io[t].read_ofs, io[t].to_read, s.record.frame_size)

InRetryLoop(t) == io[t].pc \in {"write", "lock_fw", "add_fw", "read"}

====
